---- MODULE Spec2Model ----
(***************************************************************************)
(* Model of engine/src/execution_context.rs: ExecutionContext, the table   *)
(* of runtime values bound to the fields of a Scheme.                      *)
(*                                                                         *)
(* A context is a record [scheme, values]; `values` is the boxed slice of  *)
(* Option<LhsValue>, one slot per field of the scheme.  Scheme, Field,     *)
(* LhsValue and Type live in scheme.rs / types.rs; they are modelled here  *)
(* only so far as execution_context.rs uses them.                          *)
(***************************************************************************)
EXTENDS Integers, Sequences, FiniteSets, TLC

\* ------------------------------------------------------------------ bounds
MaxFields == 2          \* longest scheme drawn at Init
MaxInt == 1             \* LhsValue::Int payloads are 0..MaxInt

\* ------------------------------------------------------- external types
\* types::Type, as far as the source names its variants (lines 95-96).
Type == {"Int", "Bool"}

\* Field names a caller may present to set_field_value.
Names == {"a", "b", "foo"}

\* types::LhsValue: a tagged value.  The tag is the enum variant.
LhsValue ==
    [variant : {"Int"}, payload : 0..MaxInt] \cup
    [variant : {"Bool"}, payload : BOOLEAN]

\* Option::None of a slot.
None == [variant |-> "None"]

\* get_type for LhsValue: the Type of the variant the value carries.
get_type(value) ==
    CASE value.variant = "Int" -> "Int"
      [] value.variant = "Bool" -> "Bool"

\* A Scheme's declarations: a list of (name, type) with unique names.
FieldDecls == [name : Names, ty : Type]

RECURSIVE SeqsUpTo(_, _)
SeqsUpTo(S, n) ==
    IF n = 0 THEN {<<>>}
    ELSE LET shorter == SeqsUpTo(S, n - 1)
         IN shorter \cup {Append(s, e) : s \in {q \in shorter : Len(q) = n - 1}, e \in S}

UniqueNames(decls) ==
    \A i, j \in 1..Len(decls) : decls[i].name = decls[j].name => i = j

SchemeDecls == {d \in SeqsUpTo(FieldDecls, MaxFields) : UniqueNames(d)}

VARIABLES
    schemes,          \* Scheme instance -> its declarations; shared, read-only
    debug_assertions,  \* whether debug_assert! is compiled in
    ctxs,             \* context variable -> NoCtx or an ExecutionContext
    last,             \* the last call made and what it returned
    written,          \* per context and name, the value of the last Ok set
    mismatched        \* per context, the names a set has returned Err for

vars == <<schemes, debug_assertions, ctxs, last, written, mismatched>>

\* struct FieldValueTypeMismatchError { field_type, value_type }.
FieldValueTypeMismatchError(field_type, value_type) ==
    [kind |-> "Err", field_type |-> field_type, value_type |-> value_type]

\* A context variable that has not been constructed yet.
NoCtx == [scheme |-> 0, values |-> <<>>, live |-> FALSE]

\* ----------------------------------------------------- scheme interface
\* Scheme::get_field_count.
get_field_count(s) == Len(schemes[s])

\* PartialEq for Scheme: two references are equal when they are the same
\* instance, whatever the instances declare.
scheme_eq(s1, s2) == s1 = s2

\* Field handle: the owning scheme and a 0-based index into its list.
Field(s, index) == [scheme |-> s, index |-> index]

\* Scheme::get_field_index: Ok(Field) for a declared name, Err otherwise.
get_field_index(s, name) ==
    IF \E i \in 1..Len(schemes[s]) : schemes[s][i].name = name
    THEN [ok |-> TRUE,
          field |-> Field(s, (CHOOSE i \in 1..Len(schemes[s]) : schemes[s][i].name = name) - 1)]
    ELSE [ok |-> FALSE]

\* Field::get_type and Field::name read the declaration of the owning scheme.
field_get_type(field) == schemes[field.scheme][field.index + 1].ty
field_name(field) == schemes[field.scheme][field.index + 1].name

\* Every handle the schemes of the run can hand out.
Fields == {Field(s, i - 1) : s \in DOMAIN schemes, i \in 1..MaxFields}
ValidField(field) == field.index + 1 \in 1..Len(schemes[field.scheme])

\* --------------------------------------------------- ExecutionContext
\* new with the slots filled with a default value instead of None.
new_prefilled(s) ==
    [scheme |-> s,
     values |-> [i \in 1..get_field_count(s) |-> [variant |-> "Int", payload |-> 0]],
     live |-> TRUE]

\* new with one slot more than the scheme has fields.
new_extra_slot(s) ==
    [scheme |-> s,
     values |-> [i \in 1..(get_field_count(s) + 1) |-> None],
     live |-> TRUE]

\* ExecutionContext::new: vec![None; scheme.get_field_count()].
new(s) ==
    [scheme |-> s,
     values |-> [i \in 1..get_field_count(s) |-> None],
     live |-> TRUE]

\* ExecutionContext::scheme.
scheme(ctx) == ctx.scheme

\* get_field_value_unchecked reading the first slot whatever the index.
get_field_value_unchecked_first_slot(ctx, field) ==
    IF debug_assertions /\ ~scheme_eq(scheme(ctx), field.scheme)
    THEN [kind |-> "Panic", why |-> "debug_assert"]
    ELSE IF 1 \notin 1..Len(ctx.values)
    THEN [kind |-> "Panic", why |-> "index out of bounds"]
    ELSE IF ctx.values[1] = None
    THEN [kind |-> "Panic", why |-> "registered but not given a value",
          name |-> field_name(field)]
    ELSE [kind |-> "Ref", value |-> ctx.values[1]]

\* get_field_value_unchecked resolving an empty slot to `false`.
get_field_value_unchecked_default_on_empty(ctx, field) ==
    IF debug_assertions /\ ~scheme_eq(scheme(ctx), field.scheme)
    THEN [kind |-> "Panic", why |-> "debug_assert"]
    ELSE IF field.index + 1 \notin 1..Len(ctx.values)
    THEN [kind |-> "Panic", why |-> "index out of bounds"]
    ELSE IF ctx.values[field.index + 1] = None
    THEN [kind |-> "Ref", value |-> [variant |-> "Bool", payload |-> FALSE]]
    ELSE [kind |-> "Ref", value |-> ctx.values[field.index + 1]]

\* get_field_value_unchecked without the debug_assert on the scheme.
get_field_value_unchecked_no_assert(ctx, field) ==
    IF field.index + 1 \notin 1..Len(ctx.values)
    THEN [kind |-> "Panic", why |-> "index out of bounds"]
    ELSE IF ctx.values[field.index + 1] = None
    THEN [kind |-> "Panic", why |-> "registered but not given a value",
          name |-> field_name(field)]
    ELSE [kind |-> "Ref", value |-> ctx.values[field.index + 1]]

\* ExecutionContext::get_field_value_unchecked: what the call yields.
\* The slice index is bounds-checked, the empty slot panics with the name.
get_field_value_unchecked(ctx, field) ==
    IF debug_assertions /\ ~scheme_eq(scheme(ctx), field.scheme)
    THEN [kind |-> "Panic", why |-> "debug_assert"]
    ELSE IF field.index + 1 \notin 1..Len(ctx.values)
    THEN [kind |-> "Panic", why |-> "index out of bounds"]
    ELSE IF ctx.values[field.index + 1] = None
    THEN [kind |-> "Panic", why |-> "registered but not given a value",
          name |-> field_name(field)]
    ELSE [kind |-> "Ref", value |-> ctx.values[field.index + 1]]

\* set_field_value storing the value before it compares the types.
set_field_value_store_before_check(ctx, name, value) ==
    LET lookup == get_field_index(ctx.scheme, name)
    IN IF ~lookup.ok
       THEN [ctx |-> ctx, result |-> [kind |-> "Panic", why |-> "unwrap on Err"]]
       ELSE LET field == lookup.field
                field_type == field_get_type(field)
                value_type == get_type(value)
            IN IF field_type = value_type
               THEN [ctx |-> [ctx EXCEPT !.values[field.index + 1] = value],
                     result |-> [kind |-> "Ok"]]
               ELSE [ctx |-> [ctx EXCEPT !.values[field.index + 1] = value],
                     result |-> FieldValueTypeMismatchError(field_type, value_type)]

\* set_field_value keeping the value a Bound slot already holds.
set_field_value_keep_first(ctx, name, value) ==
    LET lookup == get_field_index(ctx.scheme, name)
    IN IF ~lookup.ok
       THEN [ctx |-> ctx, result |-> [kind |-> "Panic", why |-> "unwrap on Err"]]
       ELSE LET field == lookup.field
                field_type == field_get_type(field)
                value_type == get_type(value)
            IN IF field_type = value_type
               THEN [ctx |-> IF ctx.values[field.index + 1] = None
                              THEN [ctx EXCEPT !.values[field.index + 1] = value]
                              ELSE ctx,
                     result |-> [kind |-> "Ok"]]
               ELSE [ctx |-> ctx,
                     result |-> FieldValueTypeMismatchError(field_type, value_type)]

\* set_field_value emptying the slot when the types differ.
set_field_value_clear_on_mismatch(ctx, name, value) ==
    LET lookup == get_field_index(ctx.scheme, name)
    IN IF ~lookup.ok
       THEN [ctx |-> ctx, result |-> [kind |-> "Panic", why |-> "unwrap on Err"]]
       ELSE LET field == lookup.field
                field_type == field_get_type(field)
                value_type == get_type(value)
            IN IF field_type = value_type
               THEN [ctx |-> [ctx EXCEPT !.values[field.index + 1] = value],
                     result |-> [kind |-> "Ok"]]
               ELSE [ctx |-> [ctx EXCEPT !.values[field.index + 1] = None],
                     result |-> FieldValueTypeMismatchError(field_type, value_type)]

\* set_field_value storing into the first slot whatever the index.
set_field_value_wrong_slot(ctx, name, value) ==
    LET lookup == get_field_index(ctx.scheme, name)
    IN IF ~lookup.ok
       THEN [ctx |-> ctx, result |-> [kind |-> "Panic", why |-> "unwrap on Err"]]
       ELSE LET field == lookup.field
                field_type == field_get_type(field)
                value_type == get_type(value)
            IN IF field_type = value_type
               THEN [ctx |-> [ctx EXCEPT !.values[1] = value],
                     result |-> [kind |-> "Ok"]]
               ELSE [ctx |-> ctx,
                     result |-> FieldValueTypeMismatchError(field_type, value_type)]

\* set_field_value returning Ok for a name the scheme does not declare.
set_field_value_ignore_unknown(ctx, name, value) ==
    LET lookup == get_field_index(ctx.scheme, name)
    IN IF ~lookup.ok
       THEN [ctx |-> ctx, result |-> [kind |-> "Ok"]]
       ELSE LET field == lookup.field
                field_type == field_get_type(field)
                value_type == get_type(value)
            IN IF field_type = value_type
               THEN [ctx |-> [ctx EXCEPT !.values[field.index + 1] = value],
                     result |-> [kind |-> "Ok"]]
               ELSE [ctx |-> ctx,
                     result |-> FieldValueTypeMismatchError(field_type, value_type)]

\* ExecutionContext::set_field_value: the context after the call and the
\* Result it returns (or the panic of the unwrap on a failed lookup).
set_field_value(ctx, name, value) ==
    LET lookup == get_field_index(ctx.scheme, name)
    IN IF ~lookup.ok
       THEN [ctx |-> ctx, result |-> [kind |-> "Panic", why |-> "unwrap on Err"]]
       ELSE LET field == lookup.field
                field_type == field_get_type(field)
                value_type == get_type(value)
            IN IF field_type = value_type
               THEN [ctx |-> [ctx EXCEPT !.values[field.index + 1] = value],
                     result |-> [kind |-> "Ok"]]
               ELSE [ctx |-> ctx,
                     result |-> FieldValueTypeMismatchError(field_type, value_type)]

\* ------------------------------------------------------------- actions
\* A run declares the Scheme instances S and the context variables C.
InitWith(S, C) ==
    /\ schemes \in [S -> SchemeDecls]
    /\ debug_assertions \in BOOLEAN
    /\ ctxs = [c \in C |-> NoCtx]
    /\ last = [op |-> "none"]
    /\ written = [c \in C |-> [n \in Names |-> None]]
    /\ mismatched = [c \in C |-> {}]

\* One scheme, one context: the evaluation of a filter on one record.
Init == InitWith({1}, {1})

\* Two schemes, one context: a handle resolved from the other scheme can
\* reach the context.  The two schemes declare MaxFields + 1 fields at most,
\* differ in length by one at most and name their fields in the same order,
\* so that they differ in length and in declared types.
InitCross ==
    LET order == <<"a", "b", "foo">>
    IN /\ InitWith({1, 2}, {1})
       /\ Len(schemes[1]) + Len(schemes[2]) <= MaxFields + 1
       /\ Len(schemes[1]) - Len(schemes[2]) \in {-1, 0, 1}
       /\ \A s \in {1, 2} : \A i \in 1..Len(schemes[s]) : schemes[s][i].name = order[i]

\* One scheme shared by two contexts, each owned by its own evaluation; the
\* calls of the two evaluations interleave.  The scheme declares one field
\* at most, or is the scheme a: Int, b: Bool.
InitShared ==
    /\ InitWith({1}, {1, 2})
    /\ \/ Len(schemes[1]) <= 1
       \/ schemes[1] = <<[name |-> "a", ty |-> "Int"], [name |-> "b", ty |-> "Bool"]>>

\* let mut ctx = ExecutionContext::new(&scheme);
CallNew(c, s) ==
    /\ ~ctxs[c].live
    /\ ctxs' = [ctxs EXCEPT ![c] = new(s)]
    /\ last' = [op |-> "new", ctx |-> c, scheme |-> s]
    /\ UNCHANGED <<schemes, debug_assertions, written, mismatched>>

\* ctx.scheme()
CallScheme(c) ==
    /\ ctxs[c].live
    /\ last' = [op |-> "scheme", ctx |-> c, result |-> scheme(ctxs[c])]
    /\ UNCHANGED <<schemes, debug_assertions, ctxs, written, mismatched>>

\* set_field_value on slots that the contexts of one scheme share.
CallSet_SharedSlots(c, name, value) ==
    /\ ctxs[c].live
    /\ LET out == set_field_value(ctxs[c], name, value)
       IN /\ ctxs' = [d \in DOMAIN ctxs |->
                        IF ctxs[d].live /\ ctxs[d].scheme = ctxs[c].scheme
                        THEN out.ctx ELSE ctxs[d]]
          /\ last' = [op |-> "set", ctx |-> c, name |-> name, value |-> value,
                      before |-> written[c][name], result |-> out.result]
          /\ written' = IF out.result.kind = "Ok"
                        THEN [written EXCEPT ![c][name] = value]
                        ELSE written
          /\ mismatched' = IF out.result.kind = "Err"
                           THEN [mismatched EXCEPT ![c] = @ \cup {name}]
                           ELSE mismatched
    /\ UNCHANGED <<schemes, debug_assertions>>

\* ctx.set_field_value(name, value); a panic unwinds and leaves the
\* context to whoever catches it.
CallSet(c, name, value) ==
    /\ ctxs[c].live
    /\ LET out == set_field_value(ctxs[c], name, value)
       IN /\ ctxs' = [ctxs EXCEPT ![c] = out.ctx]
          /\ last' = [op |-> "set", ctx |-> c, name |-> name, value |-> value,
                      before |-> written[c][name], result |-> out.result]
          /\ written' = IF out.result.kind = "Ok"
                        THEN [written EXCEPT ![c][name] = value]
                        ELSE written
          /\ mismatched' = IF out.result.kind = "Err"
                           THEN [mismatched EXCEPT ![c] = @ \cup {name}]
                           ELSE mismatched
    /\ UNCHANGED <<schemes, debug_assertions>>

\* a read that takes the value out of the slot (Option::take).
CallGet_Takes(c, field) ==
    /\ ctxs[c].live
    /\ ValidField(field)
    /\ last' = [op |-> "get", ctx |-> c, field |-> field,
                result |-> get_field_value_unchecked(ctxs[c], field)]
    /\ ctxs' = [ctxs EXCEPT ![c].values =
                   [i \in DOMAIN @ |-> IF i = field.index + 1 THEN None ELSE @[i]]]
    /\ UNCHANGED <<schemes, debug_assertions, written, mismatched>>

\* ctx.get_field_value_unchecked(field)
CallGet(c, field) ==
    /\ ctxs[c].live
    /\ ValidField(field)
    /\ last' = [op |-> "get", ctx |-> c, field |-> field,
                result |-> get_field_value_unchecked(ctxs[c], field)]
    /\ UNCHANGED <<schemes, debug_assertions, ctxs, written, mismatched>>

Next ==
    \/ \E c \in DOMAIN ctxs, s \in DOMAIN schemes : CallNew(c, s)
    \/ \E c \in DOMAIN ctxs : CallScheme(c)
    \/ \E c \in DOMAIN ctxs, name \in Names, value \in LhsValue : CallSet(c, name, value)
    \/ \E c \in DOMAIN ctxs, field \in Fields : CallGet(c, field)

Spec == Init /\ [][Next]_vars

SpecCross == InitCross /\ [][Next]_vars

SpecShared == InitShared /\ [][Next]_vars

\* ------------------------------------------------------------ claims
\* C1: a set whose value type differs from the declared type of the field
\* returns Err carrying exactly (declared type, value type), and the slot
\* of the field is after the call what it was before it.
C1_MismatchReportsBothTypesAndKeepsSlot ==
    [][\A c \in DOMAIN ctxs : \A i \in 1..Len(ctxs[c].values) :
          (/\ last'.op = "set" /\ last'.ctx = c
           /\ schemes[ctxs[c].scheme][i].name = last'.name
           /\ schemes[ctxs[c].scheme][i].ty # last'.value.variant)
          => /\ last'.result = [kind |-> "Err",
                                field_type |-> schemes[ctxs[c].scheme][i].ty,
                                value_type |-> last'.value.variant]
             /\ ctxs'[c].values[i] = ctxs[c].values[i]]_vars

\* A set has just failed on a field that was Bound.
C1_Witness ==
    /\ last.op = "set"
    /\ last.result.kind = "Err"
    /\ last.before # None
    /\ last.result.field_type # last.result.value_type

\* C2: a set whose value has the declared type of the field returns Ok
\* whatever the table held, and a read of the field returns the value of
\* the latest Ok set of it.
C2_SetThenGetReturnsValue ==
    \A c \in DOMAIN ctxs : \A i \in 1..Len(ctxs[c].values) :
        LET decl == schemes[ctxs[c].scheme][i]
        IN /\ (/\ last.op = "set" /\ last.ctx = c
               /\ decl.name = last.name
               /\ decl.ty = last.value.variant)
              => /\ last.result = [kind |-> "Ok"]
                 /\ ctxs[c].values[i] = last.value
           /\ (/\ last.op = "get" /\ last.ctx = c
               /\ last.field = [scheme |-> ctxs[c].scheme, index |-> i - 1]
               /\ written[c][decl.name] # None)
              => last.result = [kind |-> "Ref", value |-> written[c][decl.name]]

\* A read has just returned the value of an earlier set.
C2_Witness ==
    /\ last.op = "get"
    /\ last.result.kind = "Ref"
    /\ last.result.value \in LhsValue
    /\ \E n \in Names : written[last.ctx][n] = last.result.value

\* C3: a new table has one slot per field of its scheme, each Empty, and
\* a read of a field that no set has bound yet returns no value.
C3_NewTableIsEmpty ==
    \A c \in DOMAIN ctxs :
        /\ (last.op = "new" /\ last.ctx = c)
           => /\ Len(ctxs[c].values) = Len(schemes[last.scheme])
              /\ \A i \in 1..Len(ctxs[c].values) : ctxs[c].values[i] = None
        /\ \A i \in 1..Len(ctxs[c].values) :
              (/\ last.op = "get" /\ last.ctx = c
               /\ last.field = [scheme |-> ctxs[c].scheme, index |-> i - 1]
               /\ written[c][schemes[ctxs[c].scheme][i].name] = None)
              => last.result.kind # "Ref"

\* A table of two slots has just been created.
C3_Witness ==
    /\ last.op = "new"
    /\ Len(schemes[last.scheme]) = 2
    /\ ctxs[last.ctx].live

\* C4: a read of a field that was never set ends in the panic that names
\* the field; it returns neither a value nor an Err.
C4_UnsetReadPanicsWithName ==
    \A c \in DOMAIN ctxs : \A i \in 1..Len(ctxs[c].values) :
        (/\ last.op = "get" /\ last.ctx = c
         /\ last.field = [scheme |-> ctxs[c].scheme, index |-> i - 1]
         /\ written[c][schemes[ctxs[c].scheme][i].name] = None)
        => last.result = [kind |-> "Panic",
                          why |-> "registered but not given a value",
                          name |-> schemes[ctxs[c].scheme][i].name]

\* A read of an unset field has just panicked while another field is Bound.
C4_Witness ==
    /\ last.op = "get"
    /\ last.result.kind = "Panic"
    /\ last.result.why = "registered but not given a value"
    /\ \E n \in Names : written[last.ctx][n] # None

\* C5: a second Ok set of a field with a different value replaces the
\* first: it returns Ok, the slot holds the second value, and a read that
\* returns a value returns the latest one set, never the replaced one.
C5_SecondSetReplacesFirst ==
    [][\A c \in DOMAIN ctxs : \A i \in 1..Len(ctxs[c].values) :
          LET decl == schemes[ctxs[c].scheme][i]
          IN /\ (/\ last'.op = "set" /\ last'.ctx = c
                 /\ decl.name = last'.name
                 /\ decl.ty = last'.value.variant
                 /\ written[c][decl.name] \notin {None, last'.value})
                => /\ last'.result.kind = "Ok"
                   /\ ctxs'[c].values[i] = last'.value
                   /\ ctxs'[c].values[i] # ctxs[c].values[i]
             /\ (/\ last'.op = "get" /\ last'.ctx = c
                 /\ last'.field = [scheme |-> ctxs[c].scheme, index |-> i - 1]
                 /\ written[c][decl.name] # None)
                => /\ last'.result = [kind |-> "Ref", value |-> written[c][decl.name]]
                   /\ (/\ last.op = "set" /\ last.ctx = c
                       /\ last.name = decl.name /\ last.result.kind = "Ok"
                       /\ last.before \notin {None, last.value})
                      => /\ last'.result.value = last.value
                         /\ last'.result.value # last.before]_vars

\* A field that held one value has just been set to a different one.
C5_Witness ==
    /\ last.op = "set"
    /\ last.result.kind = "Ok"
    /\ last.before \in LhsValue
    /\ last.before # last.value
    /\ written[last.ctx][last.name] = last.value

\* C6: no step takes a slot from Bound to Empty, and a slot changes only
\* in a step that is an Ok set of the field of that slot, to the value set.
C6_BoundNeverBecomesEmpty ==
    [][\A c \in DOMAIN ctxs :
          /\ ctxs[c].live => ctxs'[c].live /\ DOMAIN ctxs'[c].values = DOMAIN ctxs[c].values
          /\ \A i \in 1..Len(ctxs[c].values) :
                /\ ctxs[c].values[i] # None => ctxs'[c].values[i] # None
                /\ ctxs'[c].values[i] # ctxs[c].values[i]
                   => /\ last'.op = "set" /\ last'.ctx = c
                      /\ last'.result.kind = "Ok"
                      /\ last'.name = schemes[ctxs[c].scheme][i].name
                      /\ ctxs'[c].values[i] = last'.value]_vars

\* Every slot of a two-field table is Bound and a set has just failed.
C6_Witness ==
    /\ last.op = "set"
    /\ last.result.kind # "Ok"
    /\ Len(ctxs[last.ctx].values) = 2
    /\ \A i \in 1..2 : ctxs[last.ctx].values[i] \in LhsValue

\* C7: a table has at every moment as many slots as its scheme has fields.
C7_SlotCountIsFieldCount ==
    \A c \in DOMAIN ctxs :
        ctxs[c].live => Len(ctxs[c].values) = Len(schemes[ctxs[c].scheme])

\* A table with a Bound slot, after sets and the scheme accessor.
C7_Witness ==
    /\ last.op = "scheme"
    /\ Len(schemes[last.result]) >= 1
    /\ \E i \in 1..Len(ctxs[last.ctx].values) : ctxs[last.ctx].values[i] # None

\* C8: a type mismatch does not stick: once a set of a field has returned
\* Err, a set of it with a value of the declared type still returns Ok and
\* stores the value, and a read of it then returns the value set.
C8_MismatchIsNotSticky ==
    \A c \in DOMAIN ctxs : \A i \in 1..Len(ctxs[c].values) :
        LET decl == schemes[ctxs[c].scheme][i]
        IN decl.name \in mismatched[c]
           => /\ (/\ last.op = "set" /\ last.ctx = c
                  /\ last.name = decl.name
                  /\ last.value.variant = decl.ty)
                 => /\ last.result.kind = "Ok"
                    /\ ctxs[c].values[i] = last.value
              /\ (/\ last.op = "get" /\ last.ctx = c
                  /\ last.field = [scheme |-> ctxs[c].scheme, index |-> i - 1]
                  /\ written[c][decl.name] # None)
                 => last.result = [kind |-> "Ref", value |-> written[c][decl.name]]

\* foo: Int; a set of foo to a Bool failed, the set to an Int succeeded and
\* the read of foo returns the Int.
C8_Witness ==
    /\ last.op = "get"
    /\ schemes[ctxs[last.ctx].scheme] = <<[name |-> "foo", ty |-> "Int"]>>
    /\ "foo" \in mismatched[last.ctx]
    /\ last.result = [kind |-> "Ref", value |-> [variant |-> "Int", payload |-> 1]]

\* C9: a set on one field, Ok or not, leaves the slot of every other field
\* as it was, so a field that was not readable before it is not after it.
C9_SetLeavesOtherSlots ==
    [][\A c \in DOMAIN ctxs : \A j \in 1..Len(ctxs[c].values) :
          (/\ last'.op = "set"
           /\ (last'.ctx # c \/ last'.name # schemes[ctxs[c].scheme][j].name))
          => ctxs'[c].values[j] = ctxs[c].values[j]]_vars

\* a: Int, b: Bool; only a was set, and the read of b has just panicked.
C9_Witness ==
    /\ last.op = "get"
    /\ schemes[ctxs[last.ctx].scheme] =
          <<[name |-> "a", ty |-> "Int"], [name |-> "b", ty |-> "Bool"]>>
    /\ ctxs[last.ctx].values[1] \in LhsValue
    /\ ctxs[last.ctx].values[2] = None
    /\ last.field.index = 1
    /\ last.result.kind = "Panic"

\* C10: a set with a name the scheme does not declare faults: it returns
\* neither Ok nor Err, and it leaves every slot as it was.
C10_UndeclaredNameFaults ==
    [][\A c \in DOMAIN ctxs :
          (/\ last'.op = "set" /\ last'.ctx = c
           /\ \A i \in 1..Len(schemes[ctxs[c].scheme]) :
                 schemes[ctxs[c].scheme][i].name # last'.name)
          => /\ last'.result.kind = "Panic"
             /\ ctxs' = ctxs]_vars

\* A set with an undeclared name has just panicked on a table with a
\* Bound slot.
C10_Witness ==
    /\ last.op = "set"
    /\ last.result = [kind |-> "Panic", why |-> "unwrap on Err"]
    /\ \E i \in 1..Len(ctxs[last.ctx].values) : ctxs[last.ctx].values[i] # None

\* C12: in every reachable state every Bound slot holds a value whose
\* runtime type is the declared type of the field with the index of the slot.
C12_BoundSlotHasDeclaredType ==
    \A c \in DOMAIN ctxs : \A i \in 1..Len(ctxs[c].values) :
        ctxs[c].values[i] # None
        => /\ ctxs[c].values[i] \in LhsValue
           /\ get_type(ctxs[c].values[i]) = schemes[ctxs[c].scheme][i].ty

\* Both slots of an (Int, Bool) table are Bound after a set of each field
\* with a value of the other type was refused.
C12_Witness ==
    \E c \in DOMAIN ctxs :
        /\ ctxs[c].live
        /\ Len(ctxs[c].values) = 2
        /\ schemes[ctxs[c].scheme][1].ty = "Int"
        /\ schemes[ctxs[c].scheme][2].ty = "Bool"
        /\ \A i \in 1..2 : /\ ctxs[c].values[i] # None
                           /\ schemes[ctxs[c].scheme][i].name \in mismatched[c]

\* C14: a read changes neither a slot nor the scheme association nor the
\* schemes, and the value it returns is the one the slot still holds, so
\* reads with no set in between return the same value.
C14_ReadChangesNothing ==
    [][last'.op = "get"
       => /\ ctxs' = ctxs
          /\ schemes' = schemes
          /\ (last'.result.kind = "Ref" /\ last'.field.scheme = ctxs[last'.ctx].scheme)
             => last'.result.value = ctxs'[last'.ctx].values[last'.field.index + 1]]_vars

\* The second field of a two-field table is Bound and a read of it has
\* just returned its value.
C14_Witness ==
    /\ last.op = "get"
    /\ last.result.kind = "Ref"
    /\ last.field.index = 1
    /\ Len(ctxs[last.ctx].values) = 2
    /\ ctxs[last.ctx].values[2] = last.result.value
    /\ mismatched[last.ctx] = {}

\* C11: in a build with debug assertions, a read with a handle resolved
\* from another Scheme instance than the one of the table ends in the
\* failed debug_assert: not in a value, not in an Err, and not in one of
\* the panics that come after a slot was indexed.
C11_ForeignHandleFailsDebugAssert ==
    \A c \in DOMAIN ctxs :
        (/\ last.op = "get" /\ last.ctx = c
         /\ last.field.scheme # ctxs[c].scheme
         /\ debug_assertions)
        => last.result = [kind |-> "Panic", why |-> "debug_assert"]

\* A debug build has just refused a handle of the other scheme whose index
\* names a Bound slot of the table, the two schemes declaring the same.
C11_Witness ==
    /\ last.op = "get"
    /\ debug_assertions
    /\ last.field.scheme # ctxs[last.ctx].scheme
    /\ schemes[1] = schemes[2]
    /\ ctxs[last.ctx].values[last.field.index + 1] \in LhsValue
    /\ last.result.kind = "Panic"

\* C13 as stated: whenever a read returns a value, the type of the value is
\* the declared type of the handle presented, for every handle and build.
C13_AnyHandleGetsItsDeclaredType ==
    (last.op = "get" /\ last.result.kind = "Ref")
    => get_type(last.result.value) = field_get_type(last.field)

\* C13 as amended: whenever a read returns a value for a handle resolved
\* from the scheme of the table, or in a build with debug assertions, the
\* type of the value is the declared type of the handle.
C13_OwnHandleGetsItsDeclaredType ==
    (/\ last.op = "get" /\ last.result.kind = "Ref"
     /\ (debug_assertions \/ last.field.scheme = ctxs[last.ctx].scheme))
    => get_type(last.result.value) = schemes[last.field.scheme][last.field.index + 1].ty

\* A release build has just returned a value for a handle of the table's
\* own scheme while the other scheme declares another type at that index.
C13_Witness ==
    /\ last.op = "get"
    /\ last.result.kind = "Ref"
    /\ ~debug_assertions
    /\ last.field.scheme = ctxs[last.ctx].scheme
    /\ \E s \in DOMAIN schemes :
          /\ s # last.field.scheme
          /\ last.field.index + 1 <= Len(schemes[s])
          /\ schemes[s][last.field.index + 1].ty # last.result.value.variant

\* C15: whatever the interleaving of the calls on two tables of one scheme,
\* a call on one table changes no slot of the other and no declaration of
\* the scheme, a table stays with the scheme it was created with, and the
\* scheme accessor returns that scheme.
C15_TablesAreIsolated ==
    [][/\ schemes' = schemes
       /\ \A d \in DOMAIN ctxs :
             /\ d # last'.ctx => ctxs'[d] = ctxs[d]
             /\ ctxs[d].live => ctxs'[d].scheme = ctxs[d].scheme
       /\ last'.op = "new" => ctxs'[last'.ctx].scheme = last'.scheme
       /\ last'.op = "scheme" => last'.result = ctxs[last'.ctx].scheme]_vars

\* Two tables of the same scheme hold different values for the same field
\* after a set on the second.
C15_Witness ==
    /\ ctxs[1].live /\ ctxs[2].live
    /\ ctxs[1].scheme = ctxs[2].scheme
    /\ last.op = "set" /\ last.ctx = 2 /\ last.result.kind = "Ok"
    /\ \E i \in 1..Len(ctxs[1].values) :
          /\ ctxs[1].values[i] \in LhsValue
          /\ ctxs[2].values[i] \in LhsValue
          /\ ctxs[1].values[i] # ctxs[2].values[i]

====
